---- MODULE Spec2Model ----
(***************************************************************************)
(* Model of the "Better Yourself" service worker (src/sw.js).              *)
(*                                                                         *)
(* The file holds two deployment modes that are never active together:     *)
(*   Policy A  lines   1-191  (static + dynamic generation)                *)
(*   Policy B  lines 193-414  (offline-first, one static generation)       *)
(* The variable `policy` fixes the mode for a whole behaviour.             *)
(*                                                                         *)
(* The host (browser) side is modelled only as far as the handlers rely    *)
(* on it: CacheStorage (caches.open / keys / delete / match, cache.addAll, *)
(* cache.put), fetch(), ExtendableEvent.waitUntil, FetchEvent.respondWith  *)
(* and the install -> activate lifecycle.                                  *)
(*                                                                         *)
(* Three specifications:                                                   *)
(*   Spec         lifecycle, cleanupCaches and the fetch router            *)
(*   SpecCleared  Policy B with a store that may be emptied while active   *)
(*   SpecControl  lifecycle, cleanupCaches, repeated activation and the    *)
(*                message / sync / push / notificationclick listeners      *)
(***************************************************************************)
EXTENDS Naturals, Sequences, FiniteSets, Bags

\* ------------------------------------------------------------------------
\* Bounds of the model
\* ------------------------------------------------------------------------

\* number of fetch events that may be in flight at the same time
MaxInFlight == 2

\* number of fetch events the host lets run while the activate event is pending
MaxDuringActivate == 1

\* invocations of the activate listener followed on one store
MaxActivations == 2

\* message events handled at a time
MaxCommands == 2

\* ------------------------------------------------------------------------
\* Program constants
\* ------------------------------------------------------------------------

STATIC_CACHE == "better-yourself-static-v1"

DYNAMIC_CACHE == "better-yourself-dynamic-v1"

\* a generation left behind by an earlier deployment
OLD_CACHE == "better-yourself-static-v0"

CacheNames == {STATIC_CACHE, DYNAMIC_CACHE, OLD_CACHE}

\* Strings are sequences of tokens, so that prefix tests are computed.
\* self.location.origin
Origin == <<"https:", "//app.test">>

\* relative references of the asset manifest
STATIC_FILES == << <<"./">>, <<"./", "index.html">>, <<"./", "manifest.json">> >>

INDEX_HTML == <<"./", "index.html">>

\* resolution of a relative reference against the worker's location
\* (the worker script sits in the root directory of the origin)
Resolve(rel) == Origin \o <<"/">> \o Tail(rel)

ManifestUrls == {Resolve(STATIC_FILES[i]) : i \in 1..Len(STATIC_FILES)}

U_APP == Origin \o <<"/", "app.js">>

U_ABOUT == Origin \o <<"/", "about">>

\* another host
U_CDN == <<"https:", "//cdn.test", "/", "lib.js">>

\* same scheme and host, another port: another origin
U_PORT == Origin \o <<":8080", "/", "api">>

Urls == ManifestUrls \cup {U_APP, U_ABOUT, U_CDN, U_PORT}

\* the origin of a URL: everything before the first path token
RECURSIVE OriginOf(_)
OriginOf(url) ==
  IF url = <<>> \/ Head(url) = "/" THEN <<>>
  ELSE <<Head(url)>> \o OriginOf(Tail(url))

SameOrigin(url) == OriginOf(url) = Origin

\* String.prototype.startsWith
StartsWith(s, prefix) ==
  /\ Len(s) >= Len(prefix)
  /\ SubSeq(s, 1, Len(prefix)) = prefix

\* ------------------------------------------------------------------------
\* Responses
\* ------------------------------------------------------------------------

Response(status, type, body, ctype) ==
  [status |-> status, type |-> type, body |-> body, ctype |-> ctype]

\* the value `undefined` (caches.match without a match)
Undefined == Response(0, "undefined", "", "")

IsResponse(v) == v.type # "undefined"

\* the body the server sends for a URL: its last path token
BodyOf(url) == url[Len(url)]

\* content type the server sends for a URL
CTypeOf(url) ==
  IF url = U_APP THEN "text/javascript"
  ELSE IF url = Resolve(STATIC_FILES[3]) THEN "application/json"
  ELSE "text/html"

\* the synthesized offline page of Policy B
OfflinePage == Response(200, "default", "offline-html", "text/html")

EmptyEntries == [u \in Urls |-> Undefined]

NoCache == [exists |-> FALSE, entries |-> EmptyEntries]

\* content of the generation of the earlier deployment
OldEntries ==
  [u \in Urls |->
     IF u \in {Resolve(INDEX_HTML), U_ABOUT}
     THEN Response(200, "basic", "stale", "text/html")
     ELSE Undefined]

VARIABLES
  policy,   \* "A" or "B": the deployment mode
  phase,    \* lifecycle state of the worker instance, kept by the host
  caches,   \* CacheStorage: generation name -> [exists, entries]
  inst,     \* install listeners' waitUntil chains: name -> [pc, failed, skipped]
  cleanup,  \* Policy A's cleanupCaches call: [pc, pending]
  act,      \* activate listener's chain: [pc, started, pending, run, kept]
  intents,  \* [skipWaiting, claim]: intents issued to the host
  reqs,     \* fetch events in flight: a bag of request records
  cmds,     \* message events being handled: a bag of command records
  host      \* [notification, window]: what the handlers made the host show

vars == <<policy, phase, caches, inst, cleanup, act, intents, reqs, cmds, host>>

\* the version string of the mode; no generation of this name is ever opened
CACHE_NAME ==
  IF policy = "A" THEN "better-yourself-v1.0.0" ELSE "better-yourself-offline-v1.0.0"

Existing == {n \in CacheNames : caches[n].exists}

\* caches.open(name): creates the generation when absent
Opened(store, name) ==
  IF store[name].exists THEN store
  ELSE [store EXCEPT ![name] = [exists |-> TRUE, entries |-> EmptyEntries]]

\* caches.delete(name): a no-op for an absent generation
Deleted(store, name) == [store EXCEPT ![name] = NoCache]

\* cache.put(url, response) on generation `name`
Put(store, name, url, response) ==
  [store EXCEPT ![name] =
     [exists |-> TRUE, entries |-> [store[name].entries EXCEPT ![url] = response]]]

\* the generations in which caches.match(url) finds an entry
Holders(url) == {n \in Existing : IsResponse(caches[n].entries[url])}

\* the possible results of caches.match(url): the entry of one of the
\* generations that hold the URL, undefined when none does
CachesMatch(url) ==
  IF Holders(url) = {} THEN {Undefined}
  ELSE {caches[n].entries[url] : n \in Holders(url)}

\* ------------------------------------------------------------------------
\* The network
\* ------------------------------------------------------------------------

\* a network error: fetch() rejects
NetFail == Response(0, "error", "", "")

NotFound == Response(404, "basic", "", "text/html")

\* the possible outcomes of fetch(url) issued by the worker
NetAnswers(url) ==
  IF SameOrigin(url)
  THEN {Response(200, "basic", BodyOf(url), CTypeOf(url)), NotFound, NetFail}
  ELSE {Response(200, "cors", "x", "text/plain"), Response(0, "opaque", "", ""), NetFail}

\* what fetch() rejects with when the network cannot be reached
FetchError == "TypeError: Failed to fetch"

\* Response.ok
Ok(response) == response.status >= 200 /\ response.status <= 299

\* ------------------------------------------------------------------------
\* install
\* ------------------------------------------------------------------------

Handlers == {"first", "second"}

NoHandler == [pc |-> "none", failed |-> FALSE, skipped |-> FALSE]

\* the listeners of the mode whose install work is handed to waitUntil:
\* A: line 16; B: lines 207 and 395
Registered(h) == h = "first" \/ policy = "B"

\* the "first" listeners end their chain with .catch, B's second does not
HasCatch(h) == h = "first"

\* a chain whose .catch comes before the .then that calls skipWaiting()
OnInstallErrorThenSkip(h) ==
  [pc |-> "skipWaiting", failed |-> TRUE, skipped |-> FALSE]

\* how a chain ends when caches.open or cache.addAll rejects: the .then that
\* calls skipWaiting() is passed over
OnInstallError(h) ==
  [pc |-> IF HasCatch(h) THEN "fulfilled" ELSE "rejected", failed |-> TRUE,
   skipped |-> FALSE]

\* cache.addAll: every request is fetched; the entries are written only when
\* every response is ok, otherwise the call rejects and nothing is written
AddAllOk(answers) == \A u \in DOMAIN answers : Ok(answers[u])

AddAll(store, name, answers) ==
  [store EXCEPT ![name] =
     [exists |-> TRUE,
      entries |-> [u \in Urls |->
                     IF u \in DOMAIN answers THEN answers[u]
                     ELSE store[name].entries[u]]]]

InstallEvent ==
  /\ phase = "parsed"
  /\ phase' = "installing"
  /\ inst' = [h \in Handlers |->
                IF Registered(h)
                THEN [pc |-> "open", failed |-> FALSE, skipped |-> FALSE]
                ELSE NoHandler]
  /\ cleanup' = IF policy = "A" THEN [pc |-> "keys", pending |-> {}] ELSE cleanup
  /\ UNCHANGED <<policy, caches, act, intents, reqs, cmds, host>>

InstallOpen(h) ==
  /\ inst[h].pc = "open"
  /\ \E ok \in BOOLEAN :
       IF ok
       THEN /\ caches' = Opened(caches, STATIC_CACHE)
            /\ inst' = [inst EXCEPT ![h].pc = "addAll"]
       ELSE /\ caches' = caches
            /\ inst' = [inst EXCEPT ![h] = OnInstallError(h)]
  /\ UNCHANGED <<policy, phase, cleanup, act, intents, reqs, cmds, host>>

InstallAddAll(h) ==
  /\ inst[h].pc = "addAll"
  /\ \E bad \in SUBSET ManifestUrls, r \in {NetFail, NotFound} :
       LET answers == [u \in ManifestUrls |->
                         IF u \in bad THEN r
                         ELSE Response(200, "basic", BodyOf(u), CTypeOf(u))]
       IN IF AddAllOk(answers)
          THEN /\ caches' = AddAll(caches, STATIC_CACHE, answers)
               /\ inst' = [inst EXCEPT ![h].pc = "skipWaiting"]
          ELSE /\ caches' = caches
               /\ inst' = [inst EXCEPT ![h] = OnInstallError(h)]
  /\ UNCHANGED <<policy, phase, cleanup, act, intents, reqs, cmds, host>>

InstallSkipWaiting(h) ==
  /\ inst[h].pc = "skipWaiting"
  /\ intents' = [intents EXCEPT !.skipWaiting = TRUE]
  /\ inst' = [inst EXCEPT ![h].pc = "fulfilled", ![h].skipped = TRUE]
  /\ UNCHANGED <<policy, phase, caches, cleanup, act, reqs, cmds, host>>

\* the host settles the install event once every promise handed to waitUntil
\* has settled: one rejection makes the installation fail
InstallSettled ==
  /\ phase = "installing"
  /\ \A h \in Handlers : inst[h].pc \in {"none", "fulfilled", "rejected"}
  /\ phase' = IF \E h \in Handlers : inst[h].pc = "rejected"
              THEN "redundant" ELSE "installed"
  /\ UNCHANGED <<policy, caches, inst, cleanup, act, intents, reqs, cmds, host>>

\* the host registers the script again on the next load: a new instance
HostRetry ==
  /\ phase = "redundant"
  /\ phase' = "parsed"
  /\ inst' = [h \in Handlers |-> NoHandler]
  /\ intents' = [skipWaiting |-> FALSE, claim |-> FALSE]
  /\ UNCHANGED <<policy, caches, cleanup, act, reqs, cmds, host>>

\* ------------------------------------------------------------------------
\* cleanupCaches (Policy A), started by the second install listener and
\* not handed to waitUntil
\* ------------------------------------------------------------------------

IsOldCache(cacheName) == cacheName # STATIC_CACHE /\ cacheName # DYNAMIC_CACHE

CleanupKeys ==
  /\ cleanup.pc = "keys"
  /\ cleanup' = [pc |-> "deleting", pending |-> {n \in Existing : IsOldCache(n)}]
  /\ UNCHANGED <<policy, phase, caches, inst, act, intents, reqs, cmds, host>>

CleanupDelete(n) ==
  /\ cleanup.pc = "deleting"
  /\ n \in cleanup.pending
  /\ caches' = Deleted(caches, n)
  /\ cleanup' = [cleanup EXCEPT !.pending = @ \ {n}]
  /\ UNCHANGED <<policy, phase, inst, act, intents, reqs, cmds, host>>

\* ------------------------------------------------------------------------
\* activate
\* ------------------------------------------------------------------------

\* the filter with its comparison inverted: keeps what it should delete
ShouldDeleteInverted(cacheName) ==
  IF policy = "A"
  THEN cacheName = STATIC_CACHE \/ cacheName = DYNAMIC_CACHE
  ELSE cacheName = STATIC_CACHE

\* the deletion filter of the activate listener
ShouldDelete(cacheName) ==
  IF policy = "A"
  THEN cacheName # STATIC_CACHE /\ cacheName # DYNAMIC_CACHE
  ELSE cacheName # STATIC_CACHE

\* a filter that gives up after the first stale generation it meets
ToDeleteFirstOnly(cacheNames) ==
  LET stale == {n \in cacheNames : ShouldDelete(n)}
  IN IF stale = {} THEN {} ELSE {CHOOSE n \in stale : TRUE}

\* cacheNames.map(...) : the generations for which caches.delete is called
ToDelete(cacheNames) == {n \in cacheNames : ShouldDelete(n)}

ActivateEvent ==
  /\ phase = "installed"
  /\ phase' = "activating"
  /\ act' = [pc |-> "keys", started |-> Existing, pending |-> {},
             run |-> 1, kept |-> {}]
  \* the install event is over, and with it the chains of its listeners
  /\ inst' = [h \in Handlers |-> NoHandler]
  /\ UNCHANGED <<policy, caches, cleanup, intents, reqs, cmds, host>>

ActivateKeys ==
  /\ act.pc = "keys"
  /\ act' = [act EXCEPT !.pc = "deleting", !.pending = ToDelete(Existing)]
  /\ UNCHANGED <<policy, phase, caches, inst, cleanup, intents, reqs, cmds, host>>

ActivateDelete(n) ==
  /\ act.pc = "deleting"
  /\ n \in act.pending
  /\ caches' = Deleted(caches, n)
  /\ act' = [act EXCEPT !.pending = @ \ {n}]
  /\ UNCHANGED <<policy, phase, inst, cleanup, intents, reqs, cmds, host>>

\* a chain that does not wait for Promise.all before claiming
ActivateClaimEarly ==
  /\ act.pc = "deleting"
  /\ intents' = [intents EXCEPT !.claim = TRUE]
  /\ act' = [act EXCEPT !.pc = "fulfilled"]
  /\ UNCHANGED <<policy, phase, caches, inst, cleanup, reqs, cmds, host>>

ActivateClaim ==
  /\ act.pc = "deleting"
  /\ act.pending = {}
  /\ intents' = [intents EXCEPT !.claim = TRUE]
  /\ act' = [act EXCEPT !.pc = "fulfilled"]
  /\ UNCHANGED <<policy, phase, caches, inst, cleanup, reqs, cmds, host>>

ActivateSettled ==
  /\ phase = "activating"
  /\ act.pc = "fulfilled"
  /\ phase' = "activated"
  /\ UNCHANGED <<policy, caches, inst, cleanup, act, intents, reqs, cmds, host>>

\* the activate listener is invoked once more after it has completed (the
\* host activating a further instance of the same script): the same chain,
\* started on the store the previous invocation left
ActivateAgain ==
  /\ phase = "activated"
  /\ act.pc = "fulfilled"
  /\ act.run < MaxActivations
  /\ phase' = "activating"
  /\ act' = [pc |-> "keys", started |-> Existing, pending |-> {},
             run |-> act.run + 1, kept |-> Existing]
  /\ UNCHANGED <<policy, caches, inst, cleanup, intents, reqs, cmds, host>>

\* ------------------------------------------------------------------------
\* fetch
\* ------------------------------------------------------------------------

\* the requests the page may issue: method, URL, destination
RequestKinds ==
  { [method |-> "GET",  url |-> U_ABOUT, destination |-> "document"],
    [method |-> "GET",  url |-> U_APP,   destination |-> "script"],
    [method |-> "POST", url |-> U_APP,   destination |-> ""],
    [method |-> "GET",  url |-> U_CDN,   destination |-> "script"],
    [method |-> "GET",  url |-> U_PORT,  destination |-> ""] }

\* Of a request in flight the record keeps the request, the position of the
\* respondWith chain (pc) and of the detached write chain (wpc), what the store
\* and the network answered (matched, net, netFailed, root), how the promise
\* given to respondWith settled (settle, value), the response objects whose
\* body has been read (used), and what the handler did so far.
Fresh ==
  [pc |-> "new", method |-> "", url |-> <<>>, destination |-> "",
   intercepted |-> FALSE, lookups |-> 0, netCalls |-> 0, writes |-> 0,
   matched |-> Undefined, net |-> Undefined, netFailed |-> FALSE,
   netError |-> "none", root |-> Undefined,
   settle |-> "none", value |-> Undefined, valueObj |-> "none",
   reason |-> "none",
   wpc |-> "none", toCache |-> "none", cacheCopy |-> Undefined,
   used |-> {}, stored |-> Undefined, callerBody |-> ""]

\* a router that writes to the dynamic generation in both modes
WriteTargetDynamic == DYNAMIC_CACHE

\* the generation the router writes to
WriteTarget == IF policy = "A" THEN DYNAMIC_CACHE ELSE STATIC_CACHE

\* the synchronous part of the fetch listener: the two guards, then respondWith
OnFetch(k) ==
  LET r == [Fresh EXCEPT !.method = k.method, !.url = k.url,
                        !.destination = k.destination]
  IN IF k.method # "GET" THEN [r EXCEPT !.pc = "settled"]
     ELSE IF ~StartsWith(k.url, Origin) THEN [r EXCEPT !.pc = "settled"]
     ELSE [r EXCEPT !.pc = "match", !.intercepted = TRUE, !.lookups = 1]

\* a router that remembers a failed fetch of any request in a flag shared by
\* all requests, and gives up at once while the flag is set
AfterMatchOfflineFlag(r, cachedResponse) ==
  IF \E q \in BagToSet(reqs) : q # r /\ (q.netFailed \/ q.wpc = "failed")
  THEN [r EXCEPT !.pc = "settled", !.settle = "rejected"]
  ELSE IF IsResponse(cachedResponse)
       THEN [r EXCEPT !.pc = "settled", !.settle = "fulfilled",
                      !.value = cachedResponse, !.valueObj = "cached"]
       ELSE [r EXCEPT !.pc = "fetch", !.netCalls = @ + 1]

\* a router that goes to the network although the store answered
AfterMatchRevalidating(r, cachedResponse) ==
  [r EXCEPT !.pc = "fetch", !.netCalls = @ + 1]

\* .then((cachedResponse) => ...) of caches.match(event.request)
AfterMatch(r, cachedResponse) ==
  IF IsResponse(cachedResponse)
  THEN [r EXCEPT !.pc = "settled", !.settle = "fulfilled",
                 !.value = cachedResponse, !.valueObj = "cached"]
  ELSE [r EXCEPT !.pc = "fetch", !.netCalls = @ + 1]

\* a router that stores the very object it returns, without clone()
AfterNetworkNoClone(r, networkResponse) ==
  IF ~IsResponse(networkResponse) \/ networkResponse.status # 200
       \/ networkResponse.type # "basic"
  THEN [r EXCEPT !.pc = "settled", !.settle = "fulfilled",
                 !.value = networkResponse, !.valueObj = "original"]
  ELSE [r EXCEPT !.pc = "settled", !.cacheCopy = networkResponse,
                 !.toCache = "original", !.wpc = "open", !.writes = @ + 1,
                 !.settle = "fulfilled",
                 !.value = networkResponse, !.valueObj = "original"]

\* a router without the validity check: every response is cloned and stored
AfterNetworkCacheAll(r, networkResponse) ==
  [r EXCEPT !.pc = "settled", !.cacheCopy = networkResponse,
            !.toCache = "clone", !.wpc = "open", !.writes = @ + 1,
            !.settle = "fulfilled",
            !.value = networkResponse, !.valueObj = "original"]

\* .then((networkResponse) => ...) of fetch(event.request)
AfterNetwork(r, networkResponse) ==
  IF ~IsResponse(networkResponse) \/ networkResponse.status # 200
       \/ networkResponse.type # "basic"
  THEN [r EXCEPT !.pc = "settled", !.settle = "fulfilled",
                 !.value = networkResponse, !.valueObj = "original"]
  ELSE [r EXCEPT !.pc = "settled",
                 \* networkResponse.clone(): a second object with the same body,
                 \* possible only while the body is unread
                 !.cacheCopy = IF "original" \in r.used THEN Undefined
                               ELSE networkResponse,
                 !.toCache = "clone",
                 \* caches.open(...) is started and not awaited
                 !.wpc = "open", !.writes = @ + 1,
                 !.settle = "fulfilled",
                 !.value = networkResponse, !.valueObj = "original"]

\* a failure branch that hands the root document to every failed request
AfterNetworkErrorAlwaysFallback(r, error) ==
  [r EXCEPT !.pc = "fallback", !.lookups = @ + 1]

\* .catch((error) => ...) of fetch(event.request): the root document for a
\* navigation; "throw error" for everything else
AfterNetworkError(r, error) ==
  IF r.destination = "document"
  THEN [r EXCEPT !.pc = "fallback", !.lookups = @ + 1]
  ELSE [r EXCEPT !.pc = "settled", !.settle = "rejected", !.reason = error]

\* a failure branch without the synthesized page (Policy A's, in both modes)
AfterFallbackNoPage(r, response) ==
  [r EXCEPT !.pc = "settled", !.settle = "fulfilled",
            !.value = response, !.valueObj = "cached"]

\* a failure branch that always has a page to give (Policy B's, in both modes)
AfterFallbackAlwaysPage(r, response) ==
  IF IsResponse(response)
  THEN [r EXCEPT !.pc = "settled", !.settle = "fulfilled",
                 !.value = response, !.valueObj = "cached"]
  ELSE [r EXCEPT !.pc = "settled", !.settle = "fulfilled",
                 !.value = OfflinePage, !.valueObj = "synthesized"]

\* what the failure branch makes of the result of caches.match('./index.html')
AfterFallback(r, response) ==
  LET q == [r EXCEPT !.pc = "settled", !.settle = "fulfilled"]
  IN IF policy = "A"
     THEN [q EXCEPT !.value = response, !.valueObj = "cached"]
     ELSE IF IsResponse(response)
          THEN [q EXCEPT !.value = response, !.valueObj = "cached"]
          ELSE [q EXCEPT !.value = OfflinePage, !.valueObj = "synthesized"]

\* a write chain whose failure reaches the promise given to respondWith
AfterWriteErrorSurfaced(r) ==
  [r EXCEPT !.wpc = "failed", !.settle = "rejected", !.reason = "write failed"]

\* the write chain fails: .catch((error) => ...) logs a rejection of
\* caches.open; a rejection of cache.put, which the chain does not return,
\* is observed by nobody.  Either way the write is given up
AfterWriteError(r) == [r EXCEPT !.wpc = "failed"]

\* what the host hands to the requester (FetchEvent.respondWith): the response
\* the promise fulfilled with, a network error when it rejected or fulfilled
\* with something that is no Response, default handling when not intercepted
RequesterOutcome(r) ==
  IF r.pc # "settled" THEN "pending"
  ELSE IF ~r.intercepted THEN "default"
  ELSE IF r.settle = "fulfilled" /\ IsResponse(r.value) THEN "response"
  ELSE "network_error"

InFlight == BagToSet(reqs)

\* the bag of requests after request r has become q
Becomes(r, q) == (reqs (-) SetToBag({r})) (+) SetToBag({q})

\* the host dispatches a fetch event for request k.  While the activate event
\* is pending the host holds fetch events back; the model lets a few through.
\* (Policy B's second fetch listener, lines 410-414, only writes to the log.)
FetchEvent(k) ==
  /\ \/ phase = "activated" /\ BagCardinality(reqs) < MaxInFlight
     \/ phase = "activating" /\ BagCardinality(reqs) < MaxDuringActivate
  /\ reqs' = reqs (+) SetToBag({OnFetch(k)})
  /\ UNCHANGED <<policy, phase, caches, inst, cleanup, act, intents, cmds, host>>

Match(r) ==
  /\ r.pc = "match"
  /\ \E found \in CachesMatch(r.url) :
       reqs' = Becomes(r, AfterMatch([r EXCEPT !.matched = found], found))
  /\ UNCHANGED <<policy, phase, caches, inst, cleanup, act, intents, cmds, host>>

Network(r) ==
  /\ r.pc = "fetch"
  /\ \E a \in NetAnswers(r.url) :
       reqs' = Becomes(r, IF a = NetFail
                          THEN AfterNetworkError([r EXCEPT !.netFailed = TRUE,
                                                           !.netError = FetchError],
                                                 FetchError)
                          ELSE AfterNetwork([r EXCEPT !.net = a], a))
  /\ UNCHANGED <<policy, phase, caches, inst, cleanup, act, intents, cmds, host>>

Fallback(r) ==
  /\ r.pc = "fallback"
  /\ \E found \in CachesMatch(Resolve(INDEX_HTML)) :
       reqs' = Becomes(r, AfterFallback([r EXCEPT !.root = found], found))
  /\ UNCHANGED <<policy, phase, caches, inst, cleanup, act, intents, cmds, host>>

\* the detached write chain, first step: caches.open(DYNAMIC_CACHE / STATIC_CACHE)
WriteOpen(r) ==
  /\ r.wpc = "open"
  /\ \E ok \in BOOLEAN :
       IF ok
       THEN /\ caches' = Opened(caches, WriteTarget)
            /\ reqs' = Becomes(r, [r EXCEPT !.wpc = "put"])
       ELSE /\ caches' = caches
            /\ reqs' = Becomes(r, AfterWriteError(r))
  /\ UNCHANGED <<policy, phase, inst, cleanup, act, intents, cmds, host>>

\* second step: cache.put(event.request, responseToCache).  put reads the body
\* of the object it is given and rejects when that body was read before
WritePut(r) ==
  /\ r.wpc = "put"
  /\ \E ok \in BOOLEAN :
       IF ok /\ r.toCache \notin r.used /\ IsResponse(r.cacheCopy)
       THEN /\ caches' = Put(caches, WriteTarget, r.url, r.cacheCopy)
            /\ reqs' = Becomes(r, [r EXCEPT !.wpc = "stored",
                                            !.stored = r.cacheCopy,
                                            !.used = @ \cup {r.toCache}])
       ELSE /\ caches' = caches
            /\ reqs' = Becomes(r, AfterWriteError(r))
  /\ UNCHANGED <<policy, phase, inst, cleanup, act, intents, cmds, host>>

\* the requester reads the body of the response it was given (followed only
\* for a response of which the handler keeps a copy to store)
Consume(r) ==
  /\ RequesterOutcome(r) = "response"
  /\ r.wpc # "none"
  /\ r.callerBody = ""
  /\ reqs' = Becomes(r, [r EXCEPT !.callerBody = IF r.valueObj \in r.used
                                                 THEN "TypeError" ELSE r.value.body,
                                  !.used = @ \cup {r.valueObj}])
  /\ UNCHANGED <<policy, phase, caches, inst, cleanup, act, intents, cmds, host>>

\* the request is over
Retire(r) ==
  /\ r.pc = "settled"
  /\ r.wpc \in {"none", "stored", "failed"}
  /\ r.wpc # "none" => r.callerBody # ""
  /\ reqs' = reqs (-) SetToBag({r})
  /\ UNCHANGED <<policy, phase, caches, inst, cleanup, act, intents, cmds, host>>

\* ------------------------------------------------------------------------
\* message, sync, push, notificationclick
\* ------------------------------------------------------------------------

\* event.data.type of the messages the page may post
CommandTypes == {"SKIP_WAITING", "GET_VERSION", "CACHE_STATUS"}

\* Of a message event the record keeps the command, the position of the
\* handler (pc), what caches.match('./index.html') answered (found) and the
\* objects posted to event.ports[0] (replies).
Command(type) == [type |-> type, pc |-> "done", found |-> Undefined, replies |-> <<>>]

\* the object posted in answer to GET_VERSION
VersionReply ==
  IF policy = "A"
  THEN [version |-> CACHE_NAME]
  ELSE [version |-> CACHE_NAME, offline |-> TRUE, mode |-> "offline-first"]

\* the synchronous part of the message listener, apart from skipWaiting()
OnMessage(type) ==
  IF type = "GET_VERSION"
  THEN [Command(type) EXCEPT !.replies = <<VersionReply>>]
  ELSE IF type = "CACHE_STATUS" /\ policy = "B"
       THEN [Command(type) EXCEPT !.pc = "lookup"]
       ELSE Command(type)

\* a status query that reports the root document without looking
AfterStatusLookupAlwaysCached(c, response) ==
  [c EXCEPT !.pc = "done",
            !.replies = Append(@, [cached |-> TRUE, ready |-> TRUE,
                                   mode |-> "offline"])]

\* .then((response) => ...) of caches.match('./index.html')
AfterStatusLookup(c, response) ==
  [c EXCEPT !.pc = "done",
            !.replies = Append(@, [cached |-> IsResponse(response),
                                   ready |-> TRUE, mode |-> "offline"])]

Handling == BagToSet(cmds)

\* the host dispatches a message event to the worker
Message(type) ==
  /\ phase \in {"installing", "installed", "activating", "activated"}
  /\ BagCardinality(cmds) < MaxCommands
  /\ cmds' = cmds (+) SetToBag({OnMessage(type)})
  /\ intents' = IF type = "SKIP_WAITING"
                THEN [intents EXCEPT !.skipWaiting = TRUE] ELSE intents
  /\ UNCHANGED <<policy, phase, caches, inst, cleanup, act, reqs, host>>

\* caches.match('./index.html') of a CACHE_STATUS command resolves
StatusLookup(c) ==
  /\ c.pc = "lookup"
  /\ \E found \in CachesMatch(Resolve(INDEX_HTML)) :
       cmds' = (cmds (-) SetToBag({c}))
                 (+) SetToBag({AfterStatusLookup([c EXCEPT !.found = found], found)})
  /\ UNCHANGED <<policy, phase, caches, inst, cleanup, act, intents, reqs, host>>

\* the page has read what was posted and drops the port
PortClosed(c) ==
  /\ c.pc = "done"
  /\ cmds' = cmds (-) SetToBag({c})
  /\ UNCHANGED <<policy, phase, caches, inst, cleanup, act, intents, reqs, host>>

SyncTags == {"background-sync", "other"}

\* sync: waitUntil(Promise.resolve()) / waitUntil(syncOfflineData()) for the
\* tag 'background-sync', nothing otherwise; either way nothing changes
Sync(tag) ==
  /\ phase = "activated"
  /\ tag \in SyncTags
  /\ UNCHANGED vars

DEFAULT_BODY == "Better Yourself notification"

\* event.data ? event.data.text() : '...'
PushPayloads == {"none", "hello"}

\* push (Policy A): showNotification('Better Yourself', options)
Push(data) ==
  /\ policy = "A"
  /\ phase = "activated"
  /\ host' = [host EXCEPT !.notification =
                IF data = "none" THEN DEFAULT_BODY ELSE data]
  /\ UNCHANGED <<policy, phase, caches, inst, cleanup, act, intents, reqs, cmds>>

\* notificationclick (Policy A): close the notification, open options.data.url
NotificationClick ==
  /\ policy = "A"
  /\ host.notification # "none"
  /\ host' = [notification |-> "none", window |-> Resolve(<<"./">>)]
  /\ UNCHANGED <<policy, phase, caches, inst, cleanup, act, intents, reqs, cmds>>

\* ------------------------------------------------------------------------
\* The specification
\* ------------------------------------------------------------------------

\* what earlier deployments may have left in the store under each name
Earlier(n) ==
  IF n = OLD_CACHE THEN [exists |-> TRUE, entries |-> OldEntries]
  ELSE [exists |-> TRUE, entries |-> EmptyEntries]

Init ==
  /\ policy \in {"A", "B"}
  /\ phase = "parsed"
  /\ \E left \in SUBSET {OLD_CACHE, DYNAMIC_CACHE} :
       caches = [n \in CacheNames |-> IF n \in left THEN Earlier(n) ELSE NoCache]
  /\ inst = [h \in Handlers |-> NoHandler]
  /\ cleanup = [pc |-> "none", pending |-> {}]
  /\ act = [pc |-> "none", started |-> {}, pending |-> {}, run |-> 0, kept |-> {}]
  /\ intents = [skipWaiting |-> FALSE, claim |-> FALSE]
  /\ reqs = EmptyBag
  /\ cmds = EmptyBag
  /\ host = [notification |-> "none", window |-> <<>>]

\* the install and activate listeners
Lifecycle ==
  \/ InstallEvent
  \/ \E h \in Handlers : InstallOpen(h)
  \/ \E h \in Handlers : InstallAddAll(h)
  \/ \E h \in Handlers : InstallSkipWaiting(h)
  \/ InstallSettled
  \/ HostRetry
  \/ ActivateEvent
  \/ ActivateKeys
  \/ \E n \in CacheNames : ActivateDelete(n)
  \/ ActivateClaim
  \/ ActivateSettled

\* the fetch listener
Router ==
  \/ \E k \in RequestKinds : FetchEvent(k)
  \/ \E r \in InFlight : Match(r)
  \/ \E r \in InFlight : Network(r)
  \/ \E r \in InFlight : Fallback(r)
  \/ \E r \in InFlight : WriteOpen(r)
  \/ \E r \in InFlight : WritePut(r)
  \/ \E r \in InFlight : Consume(r)
  \/ \E r \in InFlight : Retire(r)

\* the listeners both modes register for install, activate and fetch
Listeners == Lifecycle \/ Router

\* cleanupCaches, which only Policy A has
Cleanup ==
  \/ CleanupKeys
  \/ \E n \in CacheNames : CleanupDelete(n)

Next == Listeners \/ Cleanup

Spec == Init /\ [][Next]_vars

\* The user (or the host, under storage pressure) empties the site's cache
\* storage while the worker stays active.
StorageCleared ==
  /\ phase = "activated"
  /\ Existing # {}
  /\ caches' = [n \in CacheNames |-> NoCache]
  /\ UNCHANGED <<policy, phase, inst, cleanup, act, intents, reqs, cmds, host>>

InitOfflineFirst == Init /\ policy = "B"

NextCleared == Listeners \/ StorageCleared

\* Policy B with a store that may be emptied under the active worker
SpecCleared == InitOfflineFirst /\ [][NextCleared]_vars

\* the listeners for the events that are no part of the lifecycle or routing
Control ==
  \/ \E type \in CommandTypes : Message(type)
  \/ \E c \in Handling : StatusLookup(c)
  \/ \E c \in Handling : PortClosed(c)
  \/ \E tag \in SyncTags : Sync(tag)
  \/ \E data \in PushPayloads : Push(data)
  \/ NotificationClick

NextControl == Lifecycle \/ Cleanup \/ ActivateAgain \/ Control

\* the lifecycle and the control surface of a worker that routes no request
SpecControl == Init /\ [][NextControl]_vars

\* ------------------------------------------------------------------------
\* Properties
\* ------------------------------------------------------------------------

ManifestStored ==
  /\ caches[STATIC_CACHE].exists
  /\ \A u \in ManifestUrls : IsResponse(caches[STATIC_CACHE].entries[u])

\* a generation the mode counts as current
IsCurrent(n) == n = STATIC_CACHE \/ (policy = "A" /\ n = DYNAMIC_CACHE)

\* the request passed both guards' intent: a GET for the serving origin
Interceptable(r) == r.method = "GET" /\ SameOrigin(r.url)

\* an intercepted request whose lookup found nothing
Missed(r) == r.intercepted /\ r.pc \notin {"new", "match"} /\ ~IsResponse(r.matched)

\* ... and whose network fetch gave a response the router stores
CacheableMiss(r) ==
  /\ Interceptable(r)
  /\ Missed(r)
  /\ r.net.status = 200
  /\ r.net.type = "basic"

\* a navigation request whose lookup found nothing, whose network fetch
\* failed and whose failure branch has run
FailedNavigation(r) ==
  /\ Missed(r)
  /\ r.destination = "document"
  /\ r.netFailed
  /\ r.pc = "settled"

\* C1: when the population of the manifest failed in a listener of the install
\* event, the host is not told that the installation succeeded.
C1_InstallFailsWhenPopulationFails ==
  phase = "installed" => \A h \in Handlers : ~inst[h].failed

\* C2: whenever the activate handler runs or the instance is active, every
\* manifest URL is present in the current static generation.
C2_ActivatedOnlyWhenPopulated ==
  phase \in {"activating", "activated"} => ManifestStored

\* C3: when the host has been told that the installation succeeded, every
\* manifest URL is retrievable from the static generation.
C3_InstalledImpliesManifestRetrievable ==
  phase = "installed" =>
    \A u \in ManifestUrls : STATIC_CACHE \in Holders(u)

\* C4: once the activate handler has completed, every generation that existed
\* when it started and still exists has a current identifier.
C4_OnlyCurrentGenerationsSurvive ==
  act.pc = "fulfilled" => \A n \in act.started \cap Existing : IsCurrent(n)

\* a fetch-triggered write landed while the activate event was pending, the
\* handler has completed and an old generation was there when it started
C4_Witness ==
  /\ phase = "activating"
  /\ act.pc = "fulfilled"
  /\ OLD_CACHE \in act.started
  /\ STATIC_CACHE \in Existing
  /\ \E r \in InFlight : r.wpc = "stored"

\* C5: a request whose lookup found an entry is answered with that entry, and
\* the router makes no network call and attempts no store write for it.
C5_CacheHitServedFromStore ==
  \A r \in InFlight :
    (r.intercepted /\ IsResponse(r.matched)) =>
      /\ r.pc = "settled"
      /\ r.settle = "fulfilled"
      /\ r.value = r.matched
      /\ RequesterOutcome(r) = "response"
      /\ r.netCalls = 0
      /\ r.writes = 0
      /\ r.wpc = "none"

C5_Witness ==
  /\ policy = "B"
  /\ \E r \in InFlight : r.intercepted /\ IsResponse(r.matched) /\ r.url = U_APP

\* C6: for a request that is not a GET or not for the serving origin the
\* handler declines: no respondWith, no lookup, no network call, no write.
C6_NonInterceptableDeclined ==
  \A r \in InFlight :
    ~Interceptable(r) =>
      /\ ~r.intercepted
      /\ r.lookups = 0
      /\ r.netCalls = 0
      /\ r.writes = 0

\* C7: for a GET of the serving origin with a cache miss and a network response
\* of status 200 and type basic, one store write is attempted, with a copy
\* made while the body was unread; the caller is given the network response
\* and can read its body; what the write stores has the same body.
C7_CacheableMissStoredOnce ==
  \A r \in InFlight :
    CacheableMiss(r) =>
      /\ r.writes = 1
      /\ r.toCache = "clone"
      /\ r.cacheCopy = r.net
      /\ r.settle = "fulfilled"
      /\ r.value = r.net
      /\ r.valueObj = "original"
      /\ r.callerBody \in {"", r.net.body}
      /\ r.wpc = "stored" =>
           /\ r.stored.body = r.net.body
           /\ caches[WriteTarget].entries[r.url].body = r.net.body

C7_Witness ==
  \E r \in InFlight :
    /\ CacheableMiss(r)
    /\ r.wpc = "stored"
    /\ r.callerBody = r.net.body

\* C8: when the write that follows a network response fails, the caller still
\* has the network response, the promise given to respondWith stays
\* fulfilled, and no second write is attempted.
C8_WriteFailureContained ==
  \A r \in InFlight :
    r.wpc = "failed" =>
      /\ r.settle = "fulfilled"
      /\ r.value = r.net
      /\ RequesterOutcome(r) = "response"
      /\ r.callerBody \in {"", r.net.body}
      /\ r.writes = 1
      /\ r.stored = Undefined

C8_Witness ==
  \E r \in InFlight :
    /\ r.wpc = "failed"
    /\ r.callerBody = r.net.body
    /\ ~IsResponse(caches[WriteTarget].entries[r.url])

\* C9: under Policy B a navigation with a cache miss and a failed network fetch
\* is answered with the cached ./index.html when the lookup finds it, and with
\* the synthesized text/html page otherwise; the failure is not passed on.
C9_OfflineFallback ==
  policy = "B" =>
    \A r \in InFlight :
      FailedNavigation(r) =>
        /\ r.settle = "fulfilled"
        /\ RequesterOutcome(r) = "response"
        /\ IsResponse(r.root) => r.value = r.root
        /\ ~IsResponse(r.root) =>
             /\ r.value.body = "offline-html"
             /\ r.value.ctype = "text/html"

C9_Witness ==
  /\ policy = "B"
  /\ \E r \in InFlight :
       /\ FailedNavigation(r)
       /\ ~IsResponse(r.root)
       /\ r.value = OfflinePage

\* C10: under Policy A a navigation with a cache miss and a failed network
\* fetch is answered with the cached ./index.html when the lookup finds it;
\* otherwise the requester gets a failure.
C10_RootFallback ==
  policy = "A" =>
    \A r \in InFlight :
      FailedNavigation(r) =>
        /\ IsResponse(r.root) =>
             /\ r.value = r.root
             /\ RequesterOutcome(r) = "response"
        /\ ~IsResponse(r.root) => RequesterOutcome(r) = "network_error"

C10_Witness ==
  /\ policy = "A"
  /\ \E r \in InFlight :
       /\ FailedNavigation(r)
       /\ ~IsResponse(r.root)
       /\ RequesterOutcome(r) = "network_error"

\* a request other than a navigation whose lookup found nothing, whose network
\* fetch failed and whose failure branch has run
FailedSubresource(r) ==
  /\ Missed(r)
  /\ r.destination # "document"
  /\ r.netFailed

C12_ActivationIdempotent ==
  act.run >= 2 =>
    /\ act.pending = {}
    /\ Existing = act.kept
    /\ act.pc \in {"deleting", "fulfilled"} => ToDelete(act.started) = {}

C12_Witness ==
  /\ act.run = 2
  /\ phase = "activated"
  /\ act.pc = "fulfilled"
  /\ Existing = act.kept
  /\ OLD_CACHE \notin Existing
  /\ STATIC_CACHE \in Existing

\* the generations install populates and the router reads in the mode
ServingGenerations == {n \in CacheNames : IsCurrent(n)}

\* C13: a GET_VERSION command is answered with one reply whose version field
\* is the identifier of a generation that install populates and the router
\* reads, and which carries a mode label fitting the active policy.
C13_VersionIsCurrentGeneration ==
  \A c \in Handling :
    c.type = "GET_VERSION" =>
      /\ Len(c.replies) = 1
      /\ c.replies[1].version \in ServingGenerations
      /\ "mode" \in DOMAIN c.replies[1]
      /\ c.replies[1].mode = "offline-first" <=> policy = "B"

\* a CACHE_STATUS command has no reply while its lookup is pending and one
\* reply afterwards, which says "cached" exactly when the lookup found the
\* root document
StatusAnswered(c) ==
  /\ c.pc = "lookup" => c.replies = <<>>
  /\ c.pc = "done" =>
       /\ Len(c.replies) = 1
       /\ c.replies[1].cached <=> IsResponse(c.found)
       /\ c.replies[1].ready

\* C14: under Policy B a CACHE_STATUS command gets exactly one reply, whose
\* cached field is true if and only if ./index.html was in the store when the
\* lookup was made; no step of the command changes the generation store.
C14_CacheStatusReply ==
  [][policy = "B" =>
       /\ \A c \in BagToSet(cmds') : c.type = "CACHE_STATUS" => StatusAnswered(c)
       /\ cmds' # cmds => caches' = caches]_vars

C14_Witness ==
  /\ policy = "B"
  /\ \E c \in Handling :
       /\ c.type = "CACHE_STATUS"
       /\ c.pc = "done"
       /\ Len(c.replies) = 1
       /\ c.replies[1].cached
       /\ c.found.body = "index.html"

\* C15: generations are deleted only by the activate handler: a step that
\* makes a generation disappear is a deletion of the activate listener's
\* chain, so a superseded generation is still there when activate starts.
C15_DeletedOnlyDuringActivate ==
  [][(\E n \in CacheNames : caches[n].exists /\ ~caches'[n].exists) =>
       /\ phase = "activating"
       /\ act.pc = "deleting"
       /\ act'.pending # act.pending]_vars

\* C16: clients.claim() is issued only when every deletion the activation
\* started has completed (none pending, every enumerated non-current
\* generation gone), and the host sees the activate event complete only
\* after the claim.
C16_ClaimAfterDeletions ==
  /\ intents.claim =>
       /\ act.pc = "fulfilled"
       /\ act.pending = {}
       /\ \A n \in act.started : ~IsCurrent(n) => ~caches[n].exists
  /\ act.pc \in {"keys", "deleting"} => ~intents.claim /\ phase = "activating"
  /\ phase = "activated" => intents.claim

C16_Witness ==
  /\ phase = "activating"
  /\ intents.claim
  /\ OLD_CACHE \in act.started
  /\ ~caches[OLD_CACHE].exists

\* C17: an install handler calls skipWaiting() only when every manifest URL
\* is stored in the static generation, and a handler whose population failed
\* does not call it.
C17_SkipWaitingAfterPopulation ==
  /\ \A h \in Handlers :
       /\ inst[h].pc = "skipWaiting" => ManifestStored /\ ~inst[h].failed
       /\ inst[h].skipped => ManifestStored /\ ~inst[h].failed
       /\ inst[h].failed => ~inst[h].skipped /\ inst[h].pc \in {"fulfilled", "rejected"}
  /\ intents.skipWaiting => ManifestStored

C17_Witness ==
  /\ policy = "B"
  /\ inst["first"].failed
  /\ ~inst["first"].skipped
  /\ inst["second"].skipped
  /\ intents.skipWaiting
  /\ ManifestStored

\* an intercepted request whose lookup found nothing and whose network fetch
\* gave a response the router must not store
UncacheableMiss(r) ==
  /\ Missed(r)
  /\ IsResponse(r.net)
  /\ r.net.status # 200 \/ r.net.type # "basic"

\* C18: when the lookup misses and the network answers with a response that
\* is not cacheable (status other than 200, or type other than 'basic'), the
\* requester gets that very response and no write to the store is started.
C18_UncacheableReturnedUnstored ==
  \A r \in InFlight :
    UncacheableMiss(r) =>
      /\ r.pc = "settled"
      /\ r.settle = "fulfilled"
      /\ r.value = r.net
      /\ r.valueObj = "original"
      /\ RequesterOutcome(r) = "response"
      /\ r.writes = 0
      /\ r.wpc = "none"
      /\ r.cacheCopy = Undefined
      /\ \A n \in Existing : caches[n].entries[r.url] # r.net

C18_Witness ==
  /\ \E r \in InFlight : UncacheableMiss(r) /\ r.net = NotFound /\ r.value = NotFound
  /\ \E r \in InFlight : UncacheableMiss(r) /\ r.net.type = "opaque"

\* what a request is due from its own lookup and its own network call alone:
\* how the promise given to respondWith settles, and with what
OwnOutcome(r) ==
  IF IsResponse(r.matched) THEN <<"fulfilled", r.matched>>
  ELSE IF ~r.netFailed THEN <<"fulfilled", r.net>>
  ELSE IF r.destination # "document" THEN <<"rejected", Undefined>>
  ELSE IF policy = "A" \/ IsResponse(r.root) THEN <<"fulfilled", r.root>>
  ELSE <<"fulfilled", OfflinePage>>

\* C19: with several requests in flight, what is delivered for a request is
\* what its own lookup and its own network call determine, whether or not the
\* network call or the store write of another request in flight has failed,
\* and a write failure does not alter what was delivered for the request.
C19_FailuresContainedPerRequest ==
  \A r \in InFlight :
    /\ r.intercepted /\ r.pc = "settled" => <<r.settle, r.value>> = OwnOutcome(r)
    /\ r.intercepted /\ r.pc # "settled" =>
         r.settle = "none" /\ r.value = Undefined
    /\ r.pc = "fetch" => ~IsResponse(r.matched) /\ r.netCalls = 1

C19_Witness ==
  \E r \in InFlight :
    /\ r.intercepted
    /\ r.pc = "settled"
    /\ RequesterOutcome(r) = "response"
    /\ ~r.netFailed
    /\ r.wpc \in {"none", "stored"}
    /\ \E q \in InFlight : q # r /\ q.netFailed /\ q.settle = "rejected"
    /\ BagCardinality(reqs) = 2

\* the generations the mode's deletion filters pass over
Preserved(n) == ~ShouldDelete(n) /\ (policy = "A" => ~IsOldCache(n))

\* the entries of the current generations are still there after the step
EntriesKept ==
  \A n \in CacheNames :
    IsCurrent(n) /\ caches[n].exists =>
      /\ caches'[n].exists
      /\ \A u \in Urls :
           IsResponse(caches[n].entries[u]) => IsResponse(caches'[n].entries[u])

\* what install and the router have stored is where they stored it
WritesRetrievable ==
  /\ Preserved(STATIC_CACHE) /\ IsCurrent(STATIC_CACHE)
  /\ Preserved(WriteTarget) /\ IsCurrent(WriteTarget)
  /\ \A r \in InFlight :
       r.wpc = "stored" =>
         /\ caches[WriteTarget].exists
         /\ IsResponse(caches[WriteTarget].entries[r.url])

\* C20: install and the router write only to generations the mode's
\* activate handler (and Policy A's cleanupCaches) preserve, so no step
\* removes an entry from a current generation: what install and the router
\* stored stays retrievable.
C20_StoredEntriesNeverRemoved ==
  [][EntriesKept /\ WritesRetrievable']_vars

C20_Witness ==
  /\ phase = "activated"
  /\ OLD_CACHE \in act.started
  /\ ~caches[OLD_CACHE].exists
  /\ ManifestStored
  /\ \E r \in InFlight :
       /\ r.wpc = "stored"
       /\ IsResponse(caches[WriteTarget].entries[r.url])
       /\ r.url \notin ManifestUrls

====
